---- MODULE Spec2Model ----
(***************************************************************************)
(* Apache access-log pipeline (src/main.py): extract_apache_logs,          *)
(* transform_apache_logs, build_kpis, load_and_export, run_pipeline.       *)
(*                                                                         *)
(* Log lines are strings; a character of a string s is SubSeq(s, i, i).    *)
(* The input alphabet is printable ASCII plus the tab.                     *)
(***************************************************************************)
EXTENDS Integers, Sequences, FiniteSets, TLC

(***************************************************************************)
(* Bounds of the model.                                                    *)
(***************************************************************************)
MaxLines == 3
MaxReruns == 2

(***************************************************************************)
(* Characters and strings.                                                 *)
(***************************************************************************)
Char(s, i) == SubSeq(s, i, i)

Range(q) == {q[i] : i \in 1..Len(q)}

\* The slice s[a-1:b] of Python: empty when a > b, cut at the end of s.
Sub(s, a, b) ==
    IF a > b \/ a > Len(s) THEN ""
    ELSE SubSeq(s, a, IF b > Len(s) THEN Len(s) ELSE b)

\* The printable ASCII characters in code-point order: 32 (space) to 95, and
\* 97 to 126 (the grave accent, 96, is not part of the input alphabet).
AsciiLow == " !\"#$%&'()*+,-./0123456789:;<=>?@ABCDEFGHIJKLMNOPQRSTUVWXYZ[\\]^_"
AsciiHigh == "abcdefghijklmnopqrstuvwxyz{|}~"

\* The characters of s, as a sequence of one-character strings.
Chars(s) == [i \in 1..Len(s) |-> Char(s, i)]

\* Code points: character -> ord(character).
CodeTable ==
    [c \in {"\t"} \cup Range(Chars(AsciiLow)) \cup Range(Chars(AsciiHigh)) |->
        IF c = "\t" THEN 9
        ELSE IF c \in Range(Chars(AsciiLow))
             THEN 31 + (CHOOSE i \in 1..Len(AsciiLow) : Char(AsciiLow, i) = c)
             ELSE 96 + (CHOOSE i \in 1..Len(AsciiHigh) : Char(AsciiHigh, i) = c)]

\* ord(c): the code point Python compares strings by.
Ord(c) == CodeTable[c]

Digit == {"0", "1", "2", "3", "4", "5", "6", "7", "8", "9"}
Whitespace == {" ", "\t"}
DigitVal(c) == Ord(c) - 48
DigitChar(n) == <<"0", "1", "2", "3", "4", "5", "6", "7", "8", "9">>[n + 1]

\* str.strip(): drop leading and trailing whitespace.
RECURSIVE Strip(_)
Strip(s) ==
    IF s = "" THEN ""
    ELSE IF Head(s) \in Whitespace THEN Strip(Tail(s))
    ELSE IF Char(s, Len(s)) \in Whitespace THEN Strip(SubSeq(s, 1, Len(s) - 1))
    ELSE s

\* s < t as Python (and pandas' sort) orders strings: by code point, a proper
\* prefix first.
RECURSIVE StrLess(_, _)
StrLess(s, t) ==
    IF t = "" THEN FALSE
    ELSE IF s = "" THEN TRUE
    ELSE IF Head(s) = Head(t) THEN StrLess(Tail(s), Tail(t))
    ELSE Ord(Head(s)) < Ord(Head(t))

StrLeq(s, t) == s = t \/ StrLess(s, t)

\* str.isdigit() on ASCII text.
IsDigit(s) == Len(s) > 0 /\ \A i \in 1..Len(s) : Char(s, i) \in Digit

\* int(s) of a string of decimal digits.
RECURSIVE ToInt(_)
ToInt(s) ==
    IF s = "" THEN 0
    ELSE 10 * ToInt(SubSeq(s, 1, Len(s) - 1)) + DigitVal(Char(s, Len(s)))

(***************************************************************************)
(* LOG_RE: ^(ip \S+) \S+ \S+ \[(ts [^\]]+)\] "(method \S+) (path \S+)      *)
(*         (proto [^"]+)" (status \d{3}) (size \S+)$                       *)
(* Every repetition is followed by a character outside its class, so the   *)
(* greedy match is the maximal run and no backtracking can find another.   *)
(***************************************************************************)

RECURSIVE RunEnd(_, _, _)
\* The end of the maximal run of characters outside `stop` that starts at i
\* (i - 1 when the run is empty).
RunEnd(s, i, stop) ==
    IF i > Len(s) \/ Char(s, i) \in stop THEN i - 1 ELSE RunEnd(s, i + 1, stop)

\* A one-or-more repetition from i, then the literal lit: the position after
\* the literal, or 0 when the regex cannot match here.
Field(s, i, stop, lit) ==
    IF i = 0 THEN 0
    ELSE LET e == RunEnd(s, i, stop)
         IN  IF e >= i /\ Sub(s, e + 1, e + Len(lit)) = lit
             THEN e + Len(lit) + 1
             ELSE 0

NoMatch == [matched |-> FALSE]

\* LOG_RE.match(line).groupdict(), or NoMatch.
LOG_RE(line) ==
    LET p1 == Field(line, 1, Whitespace, " ")              \* ip
        p2 == Field(line, p1, Whitespace, " ")
        p3 == Field(line, p2, Whitespace, " [")
        p4 == Field(line, p3, {"]"}, "] \"")               \* ts
        p5 == Field(line, p4, Whitespace, " ")             \* method
        p6 == Field(line, p5, Whitespace, " ")             \* path
        p7 == Field(line, p6, {"\""}, "\" ")               \* proto
        st == IF p7 = 0 THEN "" ELSE Sub(line, p7, p7 + 2)
        p8 == IF p7 # 0 /\ p7 + 3 <= Len(line) /\ IsDigit(st) /\ Len(st) = 3
                 /\ Char(line, p7 + 3) = " "
              THEN p7 + 4 ELSE 0
        ok == p8 # 0 /\ p8 <= Len(line) /\ RunEnd(line, p8, Whitespace) = Len(line)
    IN  IF ~ok THEN NoMatch
        ELSE [matched |-> TRUE,
              ip     |-> Sub(line, 1, p1 - 2),
              ts     |-> Sub(line, p3, p4 - 4),
              method |-> Sub(line, p4, p5 - 2),
              path   |-> Sub(line, p5, p6 - 2),
              proto  |-> Sub(line, p6, p7 - 3),
              status |-> st,
              size   |-> Sub(line, p8, Len(line))]

(***************************************************************************)
(* extract_apache_logs, the body of the loop for one matching line.        *)
(***************************************************************************)

\* d = m.groupdict(); d["size"] = int(size) if size.isdigit() else 0;
\* d["status"] = int(status).
ParsedLine(m) ==
    [ip |-> m.ip, ts |-> m.ts, method |-> m.method, path |-> m.path,
     proto |-> m.proto,
     status |-> ToInt(m.status),
     size |-> IF IsDigit(m.size) THEN ToInt(m.size) ELSE 0]

(***************************************************************************)
(* pd.to_datetime(ts, format="%d/%b/%Y:%H:%M:%S %z", errors="coerce").     *)
(* The offset is read in its +HHMM / -HHMM spelling.                       *)
(***************************************************************************)
NaT == [nat |-> TRUE]

Upper == "ABCDEFGHIJKLMNOPQRSTUVWXYZ"
Lower == "abcdefghijklmnopqrstuvwxyz"

\* %b is matched without regard to case: upper-case letter -> lower-case.
LowerTable == [c \in Range(Chars(Upper)) |->
                  Char(Lower, CHOOSE i \in 1..26 : Char(Upper, i) = c)]

LowerChar(c) == IF c \in DOMAIN LowerTable THEN LowerTable[c] ELSE c

LowerStr(s) == [i \in 1..Len(s) |-> LowerChar(Char(s, i))]

MonthAbbr ==
    <<"jan", "feb", "mar", "apr", "may", "jun",
      "jul", "aug", "sep", "oct", "nov", "dec">>

\* The month number of a three-letter abbreviation, 0 when it is none.
MonthOf(b) ==
    LET l == LowerStr(b)
        is(i) == l = Chars(MonthAbbr[i])
    IN  IF \E i \in 1..12 : is(i) THEN CHOOSE i \in 1..12 : is(i) ELSE 0

IsLeap(y) == (y % 4 = 0 /\ y % 100 # 0) \/ y % 400 = 0

DaysIn(mo, y) ==
    IF mo = 2 THEN (IF IsLeap(y) THEN 29 ELSE 28)
    ELSE IF mo \in {4, 6, 9, 11} THEN 30 ELSE 31

RECURSIVE ClassEnd(_, _, _)
\* The end of the maximal run of characters of class cls that starts at i
\* (i - 1 when the run is empty).
ClassEnd(s, i, cls) ==
    IF i > Len(s) \/ Char(s, i) \notin cls THEN i - 1 ELSE ClassEnd(s, i + 1, cls)

DigitRunEnd(s, i) == ClassEnd(s, i, Digit)

\* The years every instant of which a nanosecond timestamp can hold
\* (Timestamp.min is in 1677, Timestamp.max in 2262).
MinYear == 1678
MaxYear == 2261

to_datetime(ts) ==
    LET e1 == DigitRunEnd(ts, 1)                      \* %d
        b1 == e1 + 2                                  \* %b
        y1 == b1 + 4                                  \* %Y
        e2 == DigitRunEnd(ts, y1)
        h1 == e2 + 2                                  \* %H
        e3 == DigitRunEnd(ts, h1)
        m1 == e3 + 2                                  \* %M
        e4 == DigitRunEnd(ts, m1)
        s1 == e4 + 2                                  \* %S
        e5 == DigitRunEnd(ts, s1)
        w  == ClassEnd(ts, e5 + 1, Whitespace)        \* " " in the format: \s+
        z1 == w + 1                                   \* %z
        shape ==
            /\ e1 \in {1, 2}
            /\ Sub(ts, e1 + 1, e1 + 1) = "/"
            /\ Sub(ts, b1 + 3, b1 + 3) = "/"
            /\ e2 = y1 + 3
            /\ Sub(ts, e2 + 1, e2 + 1) = ":"
            /\ e3 - h1 \in {0, 1}
            /\ Sub(ts, e3 + 1, e3 + 1) = ":"
            /\ e4 - m1 \in {0, 1}
            /\ Sub(ts, e4 + 1, e4 + 1) = ":"
            /\ e5 - s1 \in {0, 1}
            /\ w > e5
            /\ Sub(ts, z1, z1) \in {"+", "-"}
            /\ IsDigit(Sub(ts, z1 + 1, z1 + 4))
            /\ Len(ts) = z1 + 4
        d   == ToInt(Sub(ts, 1, e1))
        mo  == MonthOf(Sub(ts, b1, b1 + 2))
        y   == ToInt(Sub(ts, y1, e2))
        h   == ToInt(Sub(ts, h1, e3))
        mi  == ToInt(Sub(ts, m1, e4))
        sec == ToInt(Sub(ts, s1, e5))
        zh  == ToInt(Sub(ts, z1 + 1, z1 + 2))
        zm  == ToInt(Sub(ts, z1 + 3, z1 + 4))
        sgn == IF Sub(ts, z1, z1) = "-" THEN -1 ELSE 1
    IN  IF /\ shape
           /\ mo # 0
           /\ y >= MinYear /\ y <= MaxYear
           /\ d >= 1 /\ d <= DaysIn(mo, y)
           /\ h <= 23 /\ mi <= 59 /\ sec <= 59
           /\ zh <= 23 /\ zm <= 59
        THEN [nat |-> FALSE, y |-> y, mo |-> mo, d |-> d, h |-> h, mi |-> mi,
              s |-> sec, off |-> sgn * (60 * zh + zm)]
        ELSE NaT

\* n in decimal, zero-padded to w digits.
RECURSIVE Pad(_, _)
Pad(n, w) == IF w = 0 THEN "" ELSE Pad(n \div 10, w - 1) \o DigitChar(n % 10)

NaN == "NaN"

\* timestamp.strftime("%Y-%m-%d %H:00:00"): the wall-clock hour, in the
\* timestamp's own offset.
strftime_hour(t) ==
    IF t.nat THEN NaN
    ELSE Pad(t.y, 4) \o "-" \o Pad(t.mo, 2) \o "-" \o Pad(t.d, 2) \o " "
         \o Pad(t.h, 2) \o ":00:00"

\* Days from 0000-03-01 to the civil date (proleptic Gregorian).
DaysFromCivil(y, mo, d) ==
    LET yy == IF mo <= 2 THEN y - 1 ELSE y
        mm == IF mo <= 2 THEN mo + 9 ELSE mo - 3
    IN  365 * yy + yy \div 4 - yy \div 100 + yy \div 400
        + (153 * mm + 2) \div 5 + d - 1

EpochDays == DaysFromCivil(1970, 1, 1)

\* The absolute instant of a timestamp, in whole minutes since 1970-01-01
\* 00:00 UTC.
Instant(t) ==
    ((DaysFromCivil(t.y, t.mo, t.d) - EpochDays) * 24 + t.h) * 60 + t.mi - t.off

(***************************************************************************)
(* transform_apache_logs                                                   *)
(***************************************************************************)

\* Mutant of Empty: the frame never counts as empty.
Empty_Never(frame) == FALSE

\* df.empty
Empty(frame) == Len(frame) = 0

\* The timestamp column: to_datetime applied to the ts column.
TimestampColumn(frame) == [i \in 1..Len(frame) |-> to_datetime(frame[i].ts)]

\* Parsed values with different UTC offsets give a column of dtype object,
\* on which the .dt accessor raises (newer pandas raise in to_datetime).
MixedOffsets(col) ==
    \E i, j \in 1..Len(col) :
        ~col[i].nat /\ ~col[j].nat /\ col[i].off # col[j].off

\* Mutant of dropna: the rows without a timestamp are kept.
dropna_KeepAll(frame, col) == [i \in 1..Len(frame) |-> <<frame[i], col[i]>>]

RECURSIVE SelectSeq2(_, _)
\* The rows of frame at the positions of keep, in order.
SelectSeq2(frame, keep) ==
    IF frame = <<>> THEN <<>>
    ELSE (IF Head(keep) THEN <<Head(frame)>> ELSE <<>>)
         \o SelectSeq2(Tail(frame), Tail(keep))

\* df.dropna(subset=["timestamp"])
dropna(frame, col) ==
    SelectSeq2([i \in 1..Len(frame) |-> <<frame[i], col[i]>>],
               [i \in 1..Len(frame) |-> ~col[i].nat])

\* Mutant of status_class: the division is by 10.
status_class_Tens(status) == status \div 10

\* df["status"] // 100
status_class(status) == status \div 100

\* Mutant of is_error: only the 4xx and 5xx classes count as errors.
is_error_4xx5xx(status) == status \in 400..599

\* df["status"] >= 400
is_error(status) == status >= 400

CanonicalRecord(r, t) ==
    [timestamp |-> t, ip |-> r.ip, method |-> r.method, path |-> r.path,
     proto |-> r.proto, status |-> r.status,
     status_class |-> status_class(r.status), size |-> r.size,
     hour |-> strftime_hour(t), is_error |-> is_error(r.status)]

\* The frame transform_apache_logs returns for a non-empty frame whose
\* timestamps share one offset.
transform_apache_logs(frame) ==
    LET kept == dropna(frame, TimestampColumn(frame))
    IN  [i \in 1..Len(kept) |-> CanonicalRecord(kept[i][1], kept[i][2])]

(***************************************************************************)
(* build_kpis                                                              *)
(***************************************************************************)

\* df[df["is_error"]]
Errors(frame) == SelectSeq(frame, LAMBDA r : r.is_error)

RECURSIVE FirstSeen(_)
\* The values of a sequence in the order of their first appearance.
FirstSeen(q) ==
    IF q = <<>> THEN <<>>
    ELSE LET init == FirstSeen(SubSeq(q, 1, Len(q) - 1))
         IN  IF q[Len(q)] \in Range(init) THEN init ELSE Append(init, q[Len(q)])

\* Mutant of GroupSize: groupby(col, sort=False), the keys as first seen.
GroupSize_Unsorted(errors, col) ==
    LET keys == FirstSeen([i \in 1..Len(errors) |-> errors[i][col]])
    IN  [k \in 1..Len(keys) |->
            [key |-> keys[k],
             error_count |->
                 Cardinality({i \in 1..Len(errors) : errors[i][col] = keys[k]})]]

RECURSIVE SortedKeys(_)
\* The keys of a set of strings in ascending order.
SortedKeys(K) ==
    IF K = {} THEN <<>>
    ELSE LET m == CHOOSE k \in K : \A o \in K : StrLeq(k, o)
         IN  <<m>> \o SortedKeys(K \ {m})

\* errors.groupby(col).size().reset_index(name="error_count"): one row per
\* key, the keys ascending (groupby sorts its keys).
GroupSize(errors, col) ==
    LET keys == SortedKeys({errors[i][col] : i \in 1..Len(errors)})
    IN  [k \in 1..Len(keys) |->
            [key |-> keys[k],
             error_count |->
                 Cardinality({i \in 1..Len(errors) : errors[i][col] = keys[k]})]]

\* Mutant of SortByCountDesc: the rows are left in groupby's order.
SortByCountDesc_Unsorted(q, tie) == q

Reverse(q) == [i \in 1..Len(q) |-> q[Len(q) + 1 - i]]

RECURSIVE InsertDesc(_, _)
\* Insert row into a sequence that is non-increasing in error_count, after
\* the rows that count as much.
InsertDesc(q, row) ==
    IF q = <<>> THEN <<row>>
    ELSE IF Head(q).error_count >= row.error_count
         THEN <<Head(q)>> \o InsertDesc(Tail(q), row)
         ELSE <<row>> \o q

RECURSIVE StableDesc(_)
StableDesc(q) ==
    IF q = <<>> THEN <<>>
    ELSE InsertDesc(StableDesc(SubSeq(q, 1, Len(q) - 1)), q[Len(q)])

\* The orders in which a build's sort leaves rows of equal error_count
\* (kind="quicksort" is not a stable sort): as groupby gave them, or reversed.
TieOrders == {"first", "last"}

\* .sort_values("error_count", ascending=False)
SortByCountDesc(q, tie) ==
    IF tie = "first" THEN StableDesc(q) ELSE StableDesc(Reverse(q))

RECURSIVE InsertKey(_, _)
InsertKey(q, row) ==
    IF q = <<>> THEN <<row>>
    ELSE IF StrLeq(Head(q).key, row.key)
         THEN <<Head(q)>> \o InsertKey(Tail(q), row)
         ELSE <<row>> \o q

RECURSIVE SortByKey(_)
\* .sort_values("hour")
SortByKey(q) ==
    IF q = <<>> THEN <<>>
    ELSE InsertKey(SortByKey(SubSeq(q, 1, Len(q) - 1)), q[Len(q)])

\* round(100 * e / t, 2), in hundredths of a percent (5000 is 50.0): the
\* quotient 10000 * e / t rounded to the nearest integer, a half to even.
RoundPct(e, t) ==
    LET q == (10000 * e) \div t
        r == (10000 * e) % t
    IN  IF 2 * r < t THEN q
        ELSE IF 2 * r > t THEN q + 1
        ELSE IF q % 2 = 0 THEN q ELSE q + 1

\* len(df[col == v])
Count(frame, col, v) == Cardinality({i \in 1..Len(frame) : frame[i][col] = v})

build_kpis(frame, tie) ==
    LET total_requests == Len(frame)
        errors == Errors(frame)
    IN  [summary |->
            <<[total_requests |-> total_requests,
               errors_4xx |-> Count(frame, "status_class", 4),
               errors_5xx |-> Count(frame, "status_class", 5),
               error_rate_pct |->
                   IF total_requests # 0
                   THEN RoundPct(Len(errors), total_requests) ELSE 0]>>,
         errors_by_path |-> SortByCountDesc(GroupSize(errors, "path"), tie),
         errors_by_ip |-> SortByCountDesc(GroupSize(errors, "ip"), tie),
         errors_by_hour |-> SortByKey(GroupSize(errors, "hour"))]

(***************************************************************************)
(* load_and_export: the nine writes, in the order of the code.             *)
(***************************************************************************)
Tables ==
    <<"apache_logs_raw", "summary", "errors_by_path", "errors_by_ip",
      "errors_by_hour">>
CsvFiles ==
    <<"summary.csv", "errors_by_path.csv", "errors_by_ip.csv",
      "errors_by_hour.csv">>
ExportOrder == Tables \o CsvFiles

Absent == [exists |-> FALSE, rows |-> <<>>]

\* Mutant of to_sql: if_exists="append".
to_sql_Append(old, frame) == [exists |-> TRUE, rows |-> old.rows \o frame]

\* frame.to_sql(name, engine, if_exists="replace", index=False): the table
\* is dropped and created again with the rows of frame.
to_sql(old, frame) == [exists |-> TRUE, rows |-> frame]

\* frame.to_csv(name, index=False): the file is opened for writing, which
\* truncates it.
to_csv(old, frame) == [exists |-> TRUE, rows |-> frame]

\* The frame load_and_export writes to an artifact.
FrameFor(name, frame, k) ==
    IF name = "apache_logs_raw" THEN frame
    ELSE IF name \in {"summary", "summary.csv"} THEN k.summary
    ELSE IF name \in {"errors_by_path", "errors_by_path.csv"} THEN k.errors_by_path
    ELSE IF name \in {"errors_by_ip", "errors_by_ip.csv"} THEN k.errors_by_ip
    ELSE k.errors_by_hour

(***************************************************************************)
(* The input files of the model.                                           *)
(***************************************************************************)
LineOk == "10.0.0.1 - - [10/Oct/2023:13:55:36 -0700] \"GET /a HTTP/1.1\" 200 512"
Line500 == "10.0.0.1 - - [10/Oct/2023:13:56:01 -0700] \"GET /b HTTP/1.1\" 500 0"
Line404 == "10.0.0.2 - - [10/Oct/2023:09:01:02 -0700] \"POST /a HTTP/1.1\" 404 -"
LineBadTs == "10.0.0.2 - - [31/Feb/2023:13:55:36 -0700] \"GET /a HTTP/1.1\" 404 7"
Line999 == "10.0.0.3 - - [11/Oct/2023:00:00:00 -0700] \"GET /c HTTP/1.1\" 999 1"
LineOtherTz == "10.0.0.1 - - [10/Oct/2023:13:55:36 +0100] \"GET /a HTTP/1.1\" 503 9"
LineGarbage == "garbage line "
LineBlank == ""

Samples ==
    {LineOk, Line500, Line404, LineBadTs, Line999, LineOtherTz, LineGarbage,
     LineBlank}

\* The files of at most n lines, each line one of lines.
Files(lines, n) == UNION {[1..k -> lines] : k \in 0..n}

\* The files the program is run on again and again.
RerunFiles ==
    {<<LineOk, Line500, Line404>>,
     <<Line999>>,
     <<LineOk>>,
     <<LineBadTs>>,
     <<LineGarbage, LineBlank>>,
     <<Line404, LineOtherTz>>}

(***************************************************************************)
(* run_pipeline as a state machine.                                        *)
(***************************************************************************)
VARIABLES
    readable,   \* whether open(LOG_PATH) succeeds
    file,       \* the lines of the input file, without their newlines
    tie,        \* how this build's sort orders rows that compare equal
    pc,         \* the statement run_pipeline executes next
    line_no,    \* extract_apache_logs: the number of the line read next
    rows,       \* extract_apache_logs: rows
    out,        \* what was printed, in order
    df,         \* run_pipeline: df
    kpis,       \* run_pipeline: summary, errors_by_path, errors_by_ip, errors_by_hour
    db,         \* apache_logs.db: table name -> table
    csv,        \* the working directory: CSV file name -> file
    written,    \* the artifacts this run has written, in order
    err,        \* the exception that ended the run, "none" while there is none
    reruns      \* the number of runs started after the first

vars ==
    <<readable, file, tie, pc, line_no, rows, out, df, kpis, db, csv, written,
      err, reruns>>

NoKpis ==
    [summary |-> <<>>, errors_by_path |-> <<>>, errors_by_ip |-> <<>>,
     errors_by_hour |-> <<>>]

SkipMsg(n, line) == [msg |-> "skip", line_no |-> n, line |-> line]
SuccessMsg == [msg |-> "success", line_no |-> 0, line |-> ""]
CreatedMsg == [msg |-> "created", line_no |-> 0, line |-> ""]

\* The state in which run_pipeline is entered.
Start(f, r) ==
    /\ readable = r
    /\ file = (IF r THEN f ELSE <<>>)
    /\ pc = "open"
    /\ line_no = 1
    /\ rows = <<>>
    /\ out = <<>>
    /\ df = <<>>
    /\ kpis = NoKpis
    /\ written = <<>>
    /\ err = "none"

Init ==
    /\ \E f \in Files(Samples, MaxLines), r \in BOOLEAN : Start(f, r)
    /\ tie \in TieOrders
    /\ db = [t \in Range(Tables) |-> Absent]
    /\ csv = [c \in Range(CsvFiles) |-> Absent]
    /\ reruns = 0

\* An exception leaves run_pipeline.
Raise(e) == pc' = "failed" /\ err' = e

\* open(path, "r", encoding="utf-8")
OpenOk ==
    /\ pc = "open" /\ readable
    /\ pc' = "extract"
    /\ UNCHANGED <<readable, file, tie, line_no, rows, out, df, kpis, db, csv,
                   written, err, reruns>>

OpenFail ==
    /\ pc = "open" /\ ~readable
    /\ Raise("FileNotFoundError")
    /\ UNCHANGED <<readable, file, tie, line_no, rows, out, df, kpis, db, csv,
                   written, reruns>>

\* One turn of the loop of extract_apache_logs.
InLoop == pc = "extract" /\ line_no <= Len(file)

\* if not line: continue
ExtractBlank ==
    /\ InLoop
    /\ Strip(file[line_no]) = ""
    /\ line_no' = line_no + 1
    /\ UNCHANGED <<readable, file, tie, pc, rows, out, df, kpis, db, csv,
                   written, err, reruns>>

\* Mutant of ExtractSkip: the line is passed over without the print.
ExtractSkip_Silent ==
    /\ pc = "extract" /\ line_no <= Len(file)
    /\ Strip(file[line_no]) # ""
    /\ ~LOG_RE(Strip(file[line_no])).matched
    /\ line_no' = line_no + 1
    /\ UNCHANGED <<readable, file, tie, pc, rows, out, df, kpis, db, csv,
                   written, err, reruns>>

\* if not m: print(...); continue
ExtractSkip ==
    /\ InLoop
    /\ LET line == Strip(file[line_no])
       IN  /\ line # ""
           /\ ~LOG_RE(line).matched
           /\ out' = Append(out, SkipMsg(line_no, line))
    /\ line_no' = line_no + 1
    /\ UNCHANGED <<readable, file, tie, pc, rows, df, kpis, db, csv, written,
                   err, reruns>>

\* rows.append(d)
ExtractRow ==
    /\ InLoop
    /\ LET line == Strip(file[line_no])
       IN  /\ line # ""
           /\ LOG_RE(line).matched
           /\ rows' = Append(rows, ParsedLine(LOG_RE(line)))
    /\ line_no' = line_no + 1
    /\ UNCHANGED <<readable, file, tie, pc, out, df, kpis, db, csv, written,
                   err, reruns>>

\* return pd.DataFrame(rows)
ExtractReturn ==
    /\ pc = "extract" /\ line_no > Len(file)
    /\ df' = rows
    /\ pc' = "transform"
    /\ UNCHANGED <<readable, file, tie, line_no, rows, out, kpis, db, csv,
                   written, err, reruns>>

\* Mutant of TransformEmpty: the empty frame is passed on to build_kpis.
TransformEmpty_Proceeds ==
    /\ pc = "transform"
    /\ Len(df) = 0
    /\ pc' = "build_kpis"
    /\ UNCHANGED <<readable, file, tie, line_no, rows, out, df, kpis, db, csv,
                   written, err, reruns>>

\* if df.empty: raise ValueError(...)
TransformEmpty ==
    /\ pc = "transform"
    /\ Empty(df)
    /\ Raise("ValueError")
    /\ UNCHANGED <<readable, file, tie, line_no, rows, out, df, kpis, db, csv,
                   written, reruns>>

\* df["timestamp"].dt on a column of mixed offsets
TransformMixed ==
    /\ pc = "transform"
    /\ ~Empty(df)
    /\ MixedOffsets(TimestampColumn(df))
    /\ Raise("AttributeError")
    /\ UNCHANGED <<readable, file, tie, line_no, rows, out, df, kpis, db, csv,
                   written, reruns>>

Transform ==
    /\ pc = "transform"
    /\ ~Empty(df)
    /\ ~MixedOffsets(TimestampColumn(df))
    /\ df' = transform_apache_logs(df)
    /\ pc' = "build_kpis"
    /\ UNCHANGED <<readable, file, tie, line_no, rows, out, kpis, db, csv,
                   written, err, reruns>>

BuildKpis ==
    /\ pc = "build_kpis"
    /\ kpis' = build_kpis(df, tie)
    /\ pc' = "export"
    /\ UNCHANGED <<readable, file, tie, line_no, rows, out, df, db, csv,
                   written, err, reruns>>

\* The artifact load_and_export writes next.
NextArtifact == ExportOrder[Len(written) + 1]

ToSql ==
    /\ pc = "export" /\ Len(written) < Len(Tables)
    /\ db' = [db EXCEPT ![NextArtifact] =
                 to_sql(db[NextArtifact], FrameFor(NextArtifact, df, kpis))]
    /\ written' = Append(written, NextArtifact)
    /\ UNCHANGED <<readable, file, tie, pc, line_no, rows, out, df, kpis, csv,
                   err, reruns>>

ToCsv ==
    /\ pc = "export"
    /\ Len(written) >= Len(Tables) /\ Len(written) < Len(ExportOrder)
    /\ csv' = [csv EXCEPT ![NextArtifact] =
                  to_csv(csv[NextArtifact], FrameFor(NextArtifact, df, kpis))]
    /\ written' = Append(written, NextArtifact)
    /\ UNCHANGED <<readable, file, tie, pc, line_no, rows, out, df, kpis, db,
                   err, reruns>>

\* Mutant of WriteFail: the exception of a write is caught and the run goes
\* on to its report.
WriteFail_Swallowed ==
    /\ pc = "export" /\ Len(written) < Len(ExportOrder)
    /\ pc' = "report"
    /\ UNCHANGED <<readable, file, tie, line_no, rows, out, df, kpis, db, csv,
                   written, err, reruns>>

\* A write raises (the database is locked, the disk is full, ...): the
\* exception leaves load_and_export and run_pipeline.
WriteFail ==
    /\ pc = "export" /\ Len(written) < Len(ExportOrder)
    /\ Raise("WriteError")
    /\ UNCHANGED <<readable, file, tie, line_no, rows, out, df, kpis, db, csv,
                   written, reruns>>

\* load_and_export returns.
ExportReturn ==
    /\ pc = "export" /\ Len(written) = Len(ExportOrder)
    /\ pc' = "report"
    /\ UNCHANGED <<readable, file, tie, line_no, rows, out, df, kpis, db, csv,
                   written, err, reruns>>

\* The two prints that end run_pipeline.
Report ==
    /\ pc = "report"
    /\ out' = out \o <<SuccessMsg, CreatedMsg>>
    /\ pc' = "done"
    /\ UNCHANGED <<readable, file, tie, line_no, rows, df, kpis, db, csv,
                   written, err, reruns>>

Next ==
    \/ OpenOk \/ OpenFail
    \/ ExtractBlank \/ ExtractSkip \/ ExtractRow \/ ExtractReturn
    \/ TransformEmpty \/ TransformMixed \/ Transform
    \/ BuildKpis
    \/ ToSql \/ ToCsv \/ WriteFail \/ ExportReturn
    \/ Report

Spec == Init /\ [][Next]_vars

(***************************************************************************)
(* Successive runs of the program against the same apache_logs.db and      *)
(* working directory.                                                      *)
(***************************************************************************)
InitRuns ==
    /\ \E f \in RerunFiles, r \in BOOLEAN : Start(f, r)
    /\ tie \in TieOrders
    /\ db = [t \in Range(Tables) |-> Absent]
    /\ csv = [c \in Range(CsvFiles) |-> Absent]
    /\ reruns = 0

\* The program is started again once a run has ended.
Rerun ==
    /\ pc \in {"done", "failed"}
    /\ reruns < MaxReruns
    /\ \E f \in RerunFiles, r \in BOOLEAN :
           /\ readable' = r
           /\ file' = (IF r THEN f ELSE <<>>)
    /\ pc' = "open"
    /\ line_no' = 1
    /\ rows' = <<>>
    /\ out' = <<>>
    /\ df' = <<>>
    /\ kpis' = NoKpis
    /\ written' = <<>>
    /\ err' = "none"
    /\ reruns' = reruns + 1
    /\ UNCHANGED <<tie, db, csv>>

NextRuns == Next \/ Rerun

SpecRuns == InitRuns /\ [][NextRuns]_vars

(***************************************************************************)
(* Vocabulary of the properties.                                           *)
(***************************************************************************)

\* What the code's functions make of each line the input files are built
\* from: line.strip(), LOG_RE.match(line.strip()) and, for a match, the
\* to_datetime of its ts group.
SampleStripped == [l \in Samples |-> Strip(l)]
SampleMatch == [l \in Samples |-> LOG_RE(Strip(l))]
SampleTimestamp ==
    [l \in Samples |->
        IF SampleMatch[l].matched THEN to_datetime(SampleMatch[l].ts) ELSE NaT]

\* Line i of the input, stripped.
Stripped(i) == SampleStripped[file[i]]

\* Line i is empty once stripped.
Blank(i) == Stripped(i) = ""

\* Line i matches the grammar.
Matches(i) == SampleMatch[file[i]].matched

\* The input could be opened and none of its lines matches the grammar.
NoLineMatches == readable /\ \A i \in 1..Len(file) : ~Matches(i)

\* Line i matches the grammar and its timestamp text cannot be parsed.
BadTimestamp(i) == Matches(i) /\ SampleTimestamp[file[i]].nat

\* The lines extract_apache_logs has dealt with.
LinesRead == 1..(line_no - 1)

\* The diagnostics printed so far.
Skips == SelectSeq(out, LAMBDA m : m.msg = "skip")

Succeeded == SuccessMsg \in Range(out)

\* transform_apache_logs has returned, so df holds canonical records.
Transformed ==
    pc \in {"build_kpis", "export", "report", "done"} \/ err = "WriteError"

\* build_kpis has returned.
Aggregated == kpis # NoKpis

ZeroKpis ==
    [summary |-> <<[total_requests |-> 0, errors_4xx |-> 0, errors_5xx |-> 0,
                    error_rate_pct |-> 0]>>,
     errors_by_path |-> <<>>, errors_by_ip |-> <<>>, errors_by_hour |-> <<>>]

NothingWritten ==
    /\ written = <<>>
    /\ \A t \in Range(Tables) : db[t] = Absent
    /\ \A c \in Range(CsvFiles) : csv[c] = Absent

IsPrefix(p, q) == Len(p) <= Len(q) /\ SubSeq(q, 1, Len(p)) = p

RECURSIVE SumCounts(_)
SumCounts(q) == IF q = <<>> THEN 0 ELSE Head(q).error_count + SumCounts(Tail(q))

\* The rearrangements of a sequence.
Rearrangements(q) ==
    {[i \in 1..Len(q) |-> q[f[i]]] :
        f \in {g \in [1..Len(q) -> 1..Len(q)] :
                  \A a, b \in 1..Len(q) : g[a] = g[b] => a = b}}

(***************************************************************************)
(* C1                                                                      *)
(***************************************************************************)

\* C1: when the input can be opened and no line of it matches the grammar,
\* the run never gets past transform_apache_logs, which raises ValueError:
\* build_kpis and load_and_export are not called, no relation and no CSV file
\* is written, and the success message is not printed.
C1_ZeroParsedIsFatal ==
    NoLineMatches =>
        /\ pc \in {"open", "extract", "transform", "failed"}
        /\ pc = "failed" => err = "ValueError"
        /\ pc = "transform" => ENABLED TransformEmpty /\ ~ENABLED Transform
        /\ ~Aggregated
        /\ NothingWritten
        /\ ~Succeeded

\* A file of lines none of which matches has made the run fail.
C1_Witness ==
    /\ NoLineMatches
    /\ \E i \in 1..Len(file) : ~Blank(i)
    /\ pc = "failed" /\ err = "ValueError"
    /\ line_no = Len(file) + 1

(***************************************************************************)
(* C2                                                                      *)
(***************************************************************************)

\* C2: the success message is printed only once all five relations have been
\* written; a run that failed (the input could not be opened, no line parsed,
\* or a write raised) has stopped where it failed: nothing runs after the
\* failure, the writes done are the ones before the failing one, and the
\* success message is not printed.
C2_SuccessOnlyAfterAllWrites ==
    /\ Succeeded =>
           /\ pc = "done"
           /\ written = ExportOrder
           /\ \A t \in Range(Tables) : db[t].exists
    /\ IsPrefix(written, ExportOrder)
    /\ pc = "failed" =>
           /\ ~Succeeded
           /\ ~ENABLED Next
           /\ err # "none"
           /\ err = "WriteError" => Len(written) < Len(ExportOrder)
           /\ err # "WriteError" => written = <<>> /\ ~Aggregated
    /\ ~readable => pc \in {"open", "failed"}
    /\ pc \in {"report", "done"} => written = ExportOrder /\ err = "none"

\* A write of a relation raised after other relations had been written.
C2_Witness ==
    /\ pc = "failed" /\ err = "WriteError"
    /\ Len(written) \in 1..(Len(Tables) - 1)
    /\ db[Tables[1]].exists /\ ~db[Tables[Len(Tables)]].exists

(***************************************************************************)
(* C3                                                                      *)
(***************************************************************************)

RECURSIVE ExpectedSkips(_)
ExpectedSkips(n) ==
    IF n = 0 THEN <<>>
    ELSE ExpectedSkips(n - 1)
         \o (IF ~Blank(n) /\ ~Matches(n)
             THEN <<[msg |-> "skip", line_no |-> n, line |-> Stripped(n)]>>
             ELSE <<>>)

C4_ZeroMatchYieldsZeroKpis ==
    NoLineMatches =>
        /\ pc # "failed"
        /\ pc = "done" => kpis = ZeroKpis

\* C4, amended: a file with no matching line makes the run fail with the
\* ValueError of transform_apache_logs before any aggregate is computed; the
\* all-zero summary (total_requests 0, error_rate_pct 0.0) with empty
\* breakdowns is what build_kpis returns for an empty record set, and that
\* happens only for a file some line of which matches.
C4_ZeroMatchFailsZeroKpisNeedMatch ==
    /\ NoLineMatches /\ pc \in {"done", "failed"} =>
           pc = "failed" /\ err = "ValueError" /\ ~Aggregated
    /\ Aggregated /\ df = <<>> =>
           kpis = ZeroKpis /\ \E i \in 1..Len(file) : Matches(i)

\* A file of a blank line and a malformed one has made the run fail.
C4_Witness ==
    /\ NoLineMatches
    /\ Len(file) >= 2
    /\ \E i, j \in 1..Len(file) : Blank(i) /\ ~Blank(j)
    /\ pc = "failed" /\ err = "ValueError" /\ ~Aggregated

(***************************************************************************)
(* C5                                                                      *)
(***************************************************************************)

\* Some line matches the grammar and every matching line has a timestamp
\* that cannot be parsed.
AllTimestampsBad ==
    /\ readable
    /\ \E i \in 1..Len(file) : Matches(i)
    /\ \A i \in 1..Len(file) : Matches(i) => BadTimestamp(i)

\* C5: when at least one line parses and every parsed line has an
\* unparseable timestamp, transform_apache_logs does not raise: it returns
\* an empty frame, build_kpis returns the all-zero summary and three empty
\* breakdowns, and a run whose writes succeed ends Done with those written.
C5_AllTimestampsBadIsEmptyAggregate ==
    AllTimestampsBad =>
        /\ err \in {"none", "WriteError"}
        /\ pc = "transform" =>
               ~Empty(df) /\ ~MixedOffsets(TimestampColumn(df))
        /\ Transformed => df = <<>>
        /\ Aggregated => kpis = ZeroKpis
        /\ pc = "done" =>
               /\ db["apache_logs_raw"] = [exists |-> TRUE, rows |-> <<>>]
               /\ db["summary"] = [exists |-> TRUE, rows |-> ZeroKpis.summary]
               /\ \A t \in {"errors_by_path", "errors_by_ip", "errors_by_hour"} :
                      db[t] = [exists |-> TRUE, rows |-> <<>>]

\* Such a run has ended Done.
C5_Witness ==
    /\ AllTimestampsBad
    /\ Len(rows) >= 1
    /\ pc = "done" /\ Succeeded
    /\ kpis = ZeroKpis

(***************************************************************************)
(* C6                                                                      *)
(***************************************************************************)

\* The rows extract_apache_logs returns for the first n lines of the input.
RECURSIVE RowsOf(_)
RowsOf(n) ==
    IF n = 0 THEN <<>>
    ELSE RowsOf(n - 1)
         \o (IF Matches(n) THEN <<ParsedLine(SampleMatch[file[n]])>> ELSE <<>>)

\* The canonical records and the aggregates of this run's input file.
FrameOfInput == transform_apache_logs(RowsOf(Len(file)))
KpisOfInput == build_kpis(FrameOfInput, tie)

\* C6: whatever runs came before against the same database, once a run has
\* completed each of the five relations holds exactly the rows computed from
\* that run's input file, and no row of an earlier run.
C6_RunReplacesRelations ==
    pc \in {"report", "done"} =>
        \A t \in Range(Tables) :
            db[t] = [exists |-> TRUE,
                     rows |-> FrameFor(t, FrameOfInput, KpisOfInput)]

\* A later run has replaced the five relations of a run that had completed
\* with other rows: the CSV files, not yet rewritten, still hold the earlier
\* run's aggregates.
C6_Witness ==
    /\ reruns >= 1
    /\ pc = "export" /\ written = Tables
    /\ csv["summary.csv"].exists
    /\ csv["summary.csv"].rows # kpis.summary
    /\ Len(csv["errors_by_path.csv"].rows) > Len(kpis.errors_by_path)
    /\ db["summary"].rows = kpis.summary
    /\ db["errors_by_path"].rows = kpis.errors_by_path

(***************************************************************************)
(* C7                                                                      *)
(***************************************************************************)

NonIncreasingCount(q) ==
    \A i, j \in 1..Len(q) : i < j => q[i].error_count >= q[j].error_count

\* The instant at which the hour of a timestamp begins.
HourStart(t) == Instant(t) - t.mi

\* C7: build_kpis returns errors_by_path and errors_by_ip non-increasing in
\* error_count, and errors_by_hour non-decreasing in its hour key as strings
\* are ordered; a row of errors_by_hour that comes later is also for a later
\* hour in time.
C7_BreakdownOrdering ==
    Aggregated =>
        /\ NonIncreasingCount(kpis.errors_by_path)
        /\ NonIncreasingCount(kpis.errors_by_ip)
        /\ \A i, j \in 1..Len(kpis.errors_by_hour) :
               i < j =>
                   /\ StrLeq(kpis.errors_by_hour[i].key, kpis.errors_by_hour[j].key)
                   /\ \A a, b \in 1..Len(df) :
                          /\ df[a].hour = kpis.errors_by_hour[i].key
                          /\ df[b].hour = kpis.errors_by_hour[j].key
                          => HourStart(df[a].timestamp) <= HourStart(df[b].timestamp)

\* Aggregates in which the sorts had something to do: two paths with
\* different counts, the rarer one first in key order, and two hours read in
\* the reverse of their order in time.
C7_Witness ==
    /\ Aggregated
    /\ Len(kpis.errors_by_path) >= 2
    /\ kpis.errors_by_path[1].error_count > kpis.errors_by_path[2].error_count
    /\ StrLess(kpis.errors_by_path[2].key, kpis.errors_by_path[1].key)
    /\ Len(kpis.errors_by_hour) >= 2
    /\ \E a, b \in 1..Len(df) :
           a < b /\ df[a].is_error /\ df[b].is_error
           /\ StrLess(df[b].hour, df[a].hour)

(***************************************************************************)
(* C8                                                                      *)
(***************************************************************************)

\* The canonical records of the run and the rows of apache_logs_raw.
CanonicalRows ==
    (IF Transformed THEN Range(df) ELSE {})
    \cup Range(db["apache_logs_raw"].rows)

\* C8 as stated: every canonical record has a status_class in 1..5.
C8_StatusClassOneToFive ==
    \A r \in CanonicalRows : r.status_class \in 1..5

\* C8, amended: every canonical record, hence every row of apache_logs_raw,
\* has status_class = status // 100, an integer in 0..9 (the grammar takes
\* any three digits as a status); it is in 1..5 exactly when the status is in
\* 100..599.
C8_StatusClassIsHundreds ==
    \A r \in CanonicalRows :
        /\ r.status \in 0..999
        /\ r.status_class \in 0..9
        /\ 100 * r.status_class <= r.status
        /\ r.status < 100 * (r.status_class + 1)
        /\ r.status_class \in 1..5 <=> r.status \in 100..599

\* A line with status 999 has become a row of apache_logs_raw.
C8_Witness ==
    /\ pc = "done"
    /\ \E r \in Range(db["apache_logs_raw"].rows) :
           r.status = 999 /\ r.status_class = 9

(***************************************************************************)
(* C9                                                                      *)
(***************************************************************************)

\* build_kpis has just returned.
JustAggregated == pc = "export" /\ written = <<>>

\* C9: build_kpis returns the same summary and the same three row sequences
\* for every rearrangement of the records it was given.
C9_OrderIndependent ==
    JustAggregated =>
        \A p \in Rearrangements(df) : build_kpis(p, tie) = kpis

\* Three records that can be rearranged, with two error paths that count the
\* same.
C9_Witness ==
    /\ JustAggregated
    /\ Len(df) >= 3
    /\ Len(kpis.errors_by_path) >= 2
    /\ kpis.errors_by_path[1].error_count = kpis.errors_by_path[2].error_count
    /\ \E a, b \in 1..Len(df) :
           a < b /\ df[a].is_error /\ df[b].is_error
           /\ StrLess(df[b].path, df[a].path)

(***************************************************************************)
(* C10                                                                     *)
(***************************************************************************)

\* The number of records with status >= 400.
ErrorRecords == Cardinality({i \in 1..Len(df) : df[i].status >= 400})

DistinctKeys(q) == \A i, j \in 1..Len(q) : q[i].key = q[j].key => i = j

\* C10: the error_count values of each of the three breakdowns sum to the
\* number of records with status >= 400, the numerator of error_rate_pct;
\* each breakdown has one row per key, and every error record's key has one.
C10_BreakdownsSumToErrors ==
    Aggregated =>
        /\ SumCounts(kpis.errors_by_path) = ErrorRecords
        /\ SumCounts(kpis.errors_by_ip) = ErrorRecords
        /\ SumCounts(kpis.errors_by_hour) = ErrorRecords
        /\ kpis.summary[1].error_rate_pct =
               (IF Len(df) = 0 THEN 0 ELSE RoundPct(ErrorRecords, Len(df)))
        /\ DistinctKeys(kpis.errors_by_path)
        /\ DistinctKeys(kpis.errors_by_ip)
        /\ DistinctKeys(kpis.errors_by_hour)
        /\ \A i \in 1..Len(df) :
               df[i].status >= 400 =>
                   /\ \E k \in 1..Len(kpis.errors_by_path) :
                          kpis.errors_by_path[k].key = df[i].path
                   /\ \E k \in 1..Len(kpis.errors_by_ip) :
                          kpis.errors_by_ip[k].key = df[i].ip
                   /\ \E k \in 1..Len(kpis.errors_by_hour) :
                          kpis.errors_by_hour[k].key = df[i].hour

\* Aggregates of error records with different keys, one of them outside the
\* 4xx and 5xx classes, and of a record that is no error.
C10_Witness ==
    /\ Aggregated
    /\ ErrorRecords = 2 /\ Len(df) = 3
    /\ Len(kpis.errors_by_path) = 2 /\ Len(kpis.errors_by_hour) = 2
    /\ \E i \in 1..Len(df) : df[i].status >= 600
    /\ kpis.summary[1].error_rate_pct = 6667

====
